---- MODULE Spec2Model ----
(***************************************************************************)
(* Sensor partition resolution of st2reactor/container/partitioner.py.     *)
(*                                                                         *)
(* Python strings are modelled as sequences of one-character strings, so   *)
(* that split(','), strip() and lower() are computed character by          *)
(* character.  Every sensor-container process owns a configuration         *)
(* (cfg.CONF); the sensor catalog, the key-value store and the partition   *)
(* file are the external stores the processes read.                        *)
(***************************************************************************)
EXTENDS Integers, Sequences, FiniteSets, TLC

VARIABLES
    catalog,      \* the SensorType collection, in scan order: <<[ref, enabled]>>
    kvstore,      \* the KeyValuePair collection: key name -> value string
    files,        \* file system: path -> parsed YAML mapping (node -> sequence of refs)
    conf,         \* process -> cfg.CONF of that process
    sensor_refs,  \* process -> local sensor_refs of its last DefaultPartitioner.get_sensors
    outcome       \* process -> what its last get_sensors() call returned or raised

vars == <<catalog, kvstore, files, conf, sensor_refs, outcome>>

----------------------------------------------------------------------------
(* Bounds of the model *)

MaxCatalog == 2

NumNodes == 2

MaxValueLen == 4

----------------------------------------------------------------------------
(* Python string primitives used by the module *)

Whitespace == {" ", "\t", "\n"}

UpperChars == <<"A", "B", "C", "D", "E", "F", "G", "H", "I", "J", "K", "L", "M",
                "N", "O", "P", "Q", "R", "S", "T", "U", "V", "W", "X", "Y", "Z">>

LowerChars == <<"a", "b", "c", "d", "e", "f", "g", "h", "i", "j", "k", "l", "m",
                "n", "o", "p", "q", "r", "s", "t", "u", "v", "w", "x", "y", "z">>

lower_char(c) ==
    IF \E i \in 1..Len(UpperChars) : UpperChars[i] = c
    THEN LowerChars[CHOOSE i \in 1..Len(UpperChars) : UpperChars[i] = c]
    ELSE c

\* str.lower()
str_lower(s) == [i \in 1..Len(s) |-> lower_char(s[i])]

RECURSIVE split_from(_, _, _)
split_from(s, sep, cur) ==
    IF s = <<>> THEN <<cur>>
    ELSE IF Head(s) = sep THEN <<cur>> \o split_from(Tail(s), sep, <<>>)
    ELSE split_from(Tail(s), sep, Append(cur, Head(s)))

\* str.split(sep) with a one-character separator: '' splits to ['']
str_split(s, sep) == split_from(s, sep, <<>>)

RECURSIVE str_lstrip(_)
str_lstrip(s) ==
    IF s # <<>> /\ Head(s) \in Whitespace THEN str_lstrip(Tail(s)) ELSE s

RECURSIVE str_rstrip(_)
str_rstrip(s) ==
    IF s # <<>> /\ s[Len(s)] \in Whitespace
    THEN str_rstrip(SubSeq(s, 1, Len(s) - 1))
    ELSE s

\* faulty variant of str_strip: only leading whitespace is removed
str_strip_leading_only(s) == str_lstrip(s)

\* str.strip()
str_strip(s) == str_rstrip(str_lstrip(s))

Range(seq) == {seq[i] : i \in 1..Len(seq)}

----------------------------------------------------------------------------
(* Values returned and raised *)

\* Optional set of references: None, or a sets.Set; "unset" before resolution
RefsNone == [tag |-> "None", refs |-> {}]

RefsSet(S) == [tag |-> "Set", refs |-> S]

RefsUnset == [tag |-> "unset", refs |-> {}]

Returned(sensors) == [status |-> "ok", exc |-> "", sensors |-> sensors]

Raised(exc) == [status |-> "error", exc |-> exc, sensors |-> <<>>]

NotCalled == [status |-> "none", exc |-> "", sensors |-> <<>>]

----------------------------------------------------------------------------
(* st2common collaborators: constants, KeyValuePair, SensorType, yaml *)

DEFAULT_PARTITION_LOADER == <<"d", "e", "f", "a", "u", "l", "t">>

KVSTORE_PARTITION_LOADER ==
    <<"k", "e", "y", "-", "v", "a", "l", "u", "e", "-", "s", "t", "o", "r", "e">>

FILE_PARTITION_LOADER == <<"f", "i", "l", "e">>

\* KeyValuePair.get_by_name(name): the pair stored under name, None if there is none
KeyValuePair_get_by_name(name) ==
    IF name \in DOMAIN kvstore
    THEN [isNone |-> FALSE, value |-> kvstore[name]]
    ELSE [isNone |-> TRUE, value |-> <<>>]

\* SensorType.get_by_ref(ref): the sensor registered under ref (enabled or not), else None
SensorType_get_by_ref(ref) ==
    IF \E i \in 1..Len(catalog) : catalog[i].ref = ref
    THEN [isNone |-> FALSE,
          sensor |-> catalog[CHOOSE i \in 1..Len(catalog) :
                                /\ catalog[i].ref = ref
                                /\ \A j \in 1..(i - 1) : catalog[j].ref # ref]]
    ELSE [isNone |-> TRUE, sensor |-> [ref |-> <<>>, enabled |-> FALSE]]

----------------------------------------------------------------------------
(* partitioner.py *)

IsEnabled(sensor) == sensor.enabled

\* _get_all_enabled_sensors(): SensorType.query(enabled=True)
_get_all_enabled_sensors == SelectSeq(catalog, IsEnabled)

RECURSIVE partition_members_loop(_, _, _)
partition_members_loop(sensors, refs, partition_members) ==
    IF sensors = <<>> THEN partition_members
    ELSE partition_members_loop(
             Tail(sensors), refs,
             IF Head(sensors).ref \in refs
             THEN Append(partition_members, Head(sensors))
             ELSE partition_members)

RECURSIVE partition_members_front(_, _)
\* faulty variant of partition_members: members are inserted at the front
partition_members_front(all_enabled_sensors, refs) ==
    IF all_enabled_sensors = <<>> THEN <<>>
    ELSE LET rest == partition_members_front(Tail(all_enabled_sensors), refs)
         IN  IF Head(all_enabled_sensors).ref \in refs
             THEN Append(rest, Head(all_enabled_sensors))
             ELSE rest

\* faulty variant of partition_members: the membership test is dropped
partition_members_unfiltered(all_enabled_sensors, refs) == all_enabled_sensors

\* DefaultPartitioner.get_sensors, the loop building partition_members
partition_members(all_enabled_sensors, refs) ==
    partition_members_loop(all_enabled_sensors, refs, <<>>)

\* faulty variant of DefaultPartitioner_get_required_sensor_refs: an empty set
DefaultPartitioner_requires_nothing == [exc |-> "", refs |-> RefsSet({})]

\* DefaultPartitioner.get_required_sensor_refs
DefaultPartitioner_get_required_sensor_refs == [exc |-> "", refs |-> RefsNone]

\* KVStorePartitioner._get_partition_lookup_key: '{}.sensor_partition'.format(name)
_get_partition_lookup_key(sensor_node_name) ==
    sensor_node_name \o <<".", "s", "e", "n", "s", "o", "r", "_",
                          "p", "a", "r", "t", "i", "t", "i", "o", "n">>

\* KVStorePartitioner.get_required_sensor_refs
KVStorePartitioner_get_required_sensor_refs(sensor_node_name) ==
    LET partition_lookup_key == _get_partition_lookup_key(sensor_node_name)
        kvp == KeyValuePair_get_by_name(partition_lookup_key)
    IN  IF kvp.isNone
        THEN \* kvp.value on None
             [exc |-> "AttributeError", refs |-> RefsUnset]
        ELSE LET sensor_refs_str == IF kvp.value # <<>> THEN kvp.value ELSE <<>>
                 elements == str_split(sensor_refs_str, ",")
             IN  [exc |-> "",
                  refs |-> RefsSet({str_strip(elements[i]) : i \in 1..Len(elements)})]

\* faulty variant of FileBasedPartitioner_get_required_sensor_refs:
\* a node without entry is given the empty set
FileBasedPartitioner_missing_is_empty(sensor_node_name, partition_file) ==
    LET partition_map == files[partition_file]
    IN  IF sensor_node_name \in DOMAIN partition_map
        THEN [exc |-> "", refs |-> RefsSet(Range(partition_map[sensor_node_name]))]
        ELSE [exc |-> "", refs |-> RefsSet({})]

\* FileBasedPartitioner.get_required_sensor_refs
FileBasedPartitioner_get_required_sensor_refs(sensor_node_name, partition_file) ==
    LET partition_map == files[partition_file]
    IN  IF sensor_node_name \notin DOMAIN partition_map
        THEN [exc |-> "SensorPartitionMapMissingException", refs |-> RefsUnset]
        ELSE [exc |-> "", refs |-> RefsSet(Range(partition_map[sensor_node_name]))]

\* self.get_required_sensor_refs(), dispatched on the class of the partitioner
get_required_sensor_refs(provider, sensor_node_name, kwargs) ==
    IF provider = "KVStorePartitioner"
    THEN KVStorePartitioner_get_required_sensor_refs(sensor_node_name)
    ELSE IF provider = "FileBasedPartitioner"
    THEN FileBasedPartitioner_get_required_sensor_refs(sensor_node_name,
                                                       kwargs["partition_file"])
    ELSE DefaultPartitioner_get_required_sensor_refs

\* DefaultPartitioner.get_sensors, inherited by the other two partitioners
DefaultPartitioner_get_sensors(provider, sensor_node_name, kwargs) ==
    LET all_enabled_sensors == _get_all_enabled_sensors
        resolved == get_required_sensor_refs(provider, sensor_node_name, kwargs)
    IN  IF resolved.exc # ""
        THEN [outcome |-> Raised(resolved.exc), sensor_refs |-> RefsUnset]
        ELSE IF resolved.refs.tag = "None"
        THEN [outcome |-> Returned(all_enabled_sensors), sensor_refs |-> resolved.refs]
        ELSE [outcome |-> Returned(partition_members(all_enabled_sensors,
                                                     resolved.refs.refs)),
              sensor_refs |-> resolved.refs]

\* SingleSensorProvider.get_sensors
SingleSensorProvider_get_sensors(sensor_ref) ==
    LET found == SensorType_get_by_ref(sensor_ref)
    IN  IF found.isNone
        THEN Raised("SensorNotFoundException")
        ELSE Returned(<<found.sensor>>)

\* PROVIDERS.get(name, None)
PROVIDERS_get(name) ==
    IF name = DEFAULT_PARTITION_LOADER THEN "DefaultPartitioner"
    ELSE IF name = KVSTORE_PARTITION_LOADER THEN "KVStorePartitioner"
    ELSE IF name = FILE_PARTITION_LOADER THEN "FileBasedPartitioner"
    ELSE "None"

\* faulty variant of lookup_provider: the name is not lower-cased
lookup_provider_exact(partition_provider) == PROVIDERS_get(partition_provider)

\* PROVIDERS.get(partition_provider.lower(), None)
lookup_provider(partition_provider) == PROVIDERS_get(str_lower(partition_provider))

\* keyword parameters of provider.__init__ besides sensor_node_name
init_params(provider) ==
    IF provider = "FileBasedPartitioner" THEN {"partition_file"} ELSE {}

\* The objects a call can reach: the configured block and its shallow copy
CfgRef == "cfg"

LocalRef == "copy"

\* faulty variant of copy_copy: the block itself is handed on
copy_alias(heap, r) == [heap |-> heap, ref |-> r]

\* copy.copy(d): a new dict with the same items
copy_copy(heap, r) == [heap |-> (LocalRef :> heap[r]) @@ heap, ref |-> LocalRef]

\* d.pop(k) for a key d holds
dict_pop(heap, r, k) ==
    [heap |-> [heap EXCEPT ![r] = [x \in (DOMAIN heap[r]) \ {k} |-> heap[r][x]]],
     value |-> heap[r][k]]

\* get_sensors() past the sensor_ref test: the configured partitioner
partitioned_get_sensors(cfg) ==
    LET copied == copy_copy((CfgRef :> cfg.partition_provider), CfgRef)
    IN  IF "name" \notin DOMAIN copied.heap[copied.ref]
        THEN [outcome |-> Raised("KeyError"), sensor_refs |-> RefsUnset,
              partition_provider |-> copied.heap[CfgRef]]
        ELSE LET popped == dict_pop(copied.heap, copied.ref, "name")
                 partition_provider == popped.value
                 partition_provider_config == popped.heap[copied.ref]
                 sensor_node_name == cfg.sensor_node_name
                 provider == lookup_provider(partition_provider)
                 got == IF provider = "None"
                        THEN [outcome |-> Raised("SensorPartitionerNotSupportedException"),
                              sensor_refs |-> RefsUnset]
                        ELSE IF DOMAIN partition_provider_config # init_params(provider)
                        THEN [outcome |-> Raised("TypeError"), sensor_refs |-> RefsUnset]
                        ELSE DefaultPartitioner_get_sensors(provider, sensor_node_name,
                                                            partition_provider_config)
             IN  [outcome |-> got.outcome, sensor_refs |-> got.sensor_refs,
                  partition_provider |-> popped.heap[CfgRef]]

\* faulty variant of get_sensors_result: the provider is looked up first
get_sensors_provider_first(cfg) ==
    IF lookup_provider(cfg.partition_provider["name"]) = "None"
    THEN [outcome |-> Raised("SensorPartitionerNotSupportedException"),
          sensor_refs |-> RefsUnset, partition_provider |-> cfg.partition_provider]
    ELSE IF cfg.sensor_ref # <<>>
    THEN [outcome |-> SingleSensorProvider_get_sensors(cfg.sensor_ref),
          sensor_refs |-> RefsUnset, partition_provider |-> cfg.partition_provider]
    ELSE partitioned_get_sensors(cfg)

\* get_sensors(): what it returns or raises, and the block it leaves in cfg.CONF
get_sensors_result(cfg) ==
    IF cfg.sensor_ref # <<>>
    THEN [outcome |-> SingleSensorProvider_get_sensors(cfg.sensor_ref),
          sensor_refs |-> RefsUnset, partition_provider |-> cfg.partition_provider]
    ELSE partitioned_get_sensors(cfg)

\* Process p calls get_sensors()
get_sensors(p) ==
    LET r == get_sensors_result(conf[p])
    IN  /\ outcome' = [outcome EXCEPT ![p] = r.outcome]
        /\ sensor_refs' = [sensor_refs EXCEPT ![p] = r.sensor_refs]
        /\ conf' = [conf EXCEPT ![p].partition_provider = r.partition_provider]
        /\ UNCHANGED <<catalog, kvstore, files>>

Next == \E p \in DOMAIN conf : get_sensors(p)

----------------------------------------------------------------------------
(* The configurations and stores the processes are started with *)

RefA == <<"a">>

RefB == <<"b">>

RefC == <<"c">>

Sensors == [ref : {RefA, RefB}, enabled : BOOLEAN]

Catalogs == UNION {[1..n -> Sensors] : n \in 0..MaxCatalog}

Nodes == 1..NumNodes

Digits == <<"1", "2", "3", "4", "5", "6", "7", "8", "9">>

NodeName(i) == <<"n", Digits[i]>>

NodeNames == {NodeName(i) : i \in Nodes}

PartitionFile == <<"/", "p">>

DefaultSpellings ==
    {DEFAULT_PARTITION_LOADER,
     <<"D", "e", "f", "a", "u", "l", "t">>,
     <<"D", "E", "F", "A", "U", "L", "T">>}

KVStoreSpellings ==
    {KVSTORE_PARTITION_LOADER,
     <<"K", "e", "y", "-", "V", "a", "l", "u", "e", "-", "S", "t", "o", "r", "e">>}

FileSpellings == {FILE_PARTITION_LOADER}

UnknownNames == {<<"h", "a", "s", "h">>}

StrategyNames == DefaultSpellings \cup KVStoreSpellings \cup FileSpellings \cup UnknownNames

Blocks ==
    {("name" :> n) : n \in StrategyNames}
    \cup {("name" :> n) @@ ("partition_file" :> PartitionFile) : n \in StrategyNames}

\* Directory values: '', 'a' and ' b ,a, c'
KVValues == {<<>>, RefA, <<" ", "b", " ", ",", "a", ",", " ", "c">>}

FileEntries == {<<>>, <<RefA>>, <<RefB, RefC, RefA>>}

NoEntries == <<>>

\* The key-value stores and the partition files with at most one entry each
KVStores ==
    {NoEntries}
    \cup {(_get_partition_lookup_key(n) :> v) : n \in NodeNames, v \in KVValues}

PartitionMaps == {NoEntries} \cup {(n :> e) : n \in NodeNames, e \in FileEntries}

\* One sensor container with any configuration
Init ==
    /\ catalog \in Catalogs
    /\ kvstore \in KVStores
    /\ files \in {(PartitionFile :> m) : m \in PartitionMaps}
    /\ conf \in [{1} -> [sensor_ref : {<<>>, RefA, RefC},
                         sensor_node_name : NodeNames,
                         partition_provider : Blocks]]
    /\ sensor_refs = [p \in {1} |-> RefsUnset]
    /\ outcome = [p \in {1} |-> NotCalled]

Spec == Init /\ [][Next]_vars

----------------------------------------------------------------------------
(* A fleet: one container per node, each on the key-value or the file strategy *)

FleetKVValues == {<<>>, RefA, <<" ", "b", " ", ",", "a">>}

FleetFileEntries == {<<>>, <<RefB>>, <<RefC, RefA>>}

Assignments ==
    {[kind |-> "kv", has |-> FALSE, value |-> <<>>, entry |-> <<>>]}
    \cup {[kind |-> "kv", has |-> TRUE, value |-> v, entry |-> <<>>] : v \in FleetKVValues}
    \cup {[kind |-> "file", has |-> FALSE, value |-> <<>>, entry |-> <<>>]}
    \cup {[kind |-> "file", has |-> TRUE, value |-> <<>>, entry |-> e] :
              e \in FleetFileEntries}

FleetKV(a) ==
    LET holders == {i \in Nodes : a[i].kind = "kv" /\ a[i].has}
    IN  [k \in {_get_partition_lookup_key(NodeName(i)) : i \in holders} |->
            a[CHOOSE i \in holders : _get_partition_lookup_key(NodeName(i)) = k].value]

FleetDoc(a) ==
    LET holders == {i \in Nodes : a[i].kind = "file" /\ a[i].has}
    IN  [n \in {NodeName(i) : i \in holders} |->
            a[CHOOSE i \in holders : NodeName(i) = n].entry]

FleetConf(a) ==
    [i \in Nodes |->
        [sensor_ref |-> <<>>,
         sensor_node_name |-> NodeName(i),
         partition_provider |->
             IF a[i].kind = "kv"
             THEN ("name" :> KVSTORE_PARTITION_LOADER)
             ELSE ("name" :> FILE_PARTITION_LOADER)
                      @@ ("partition_file" :> PartitionFile)]]

InitFleet ==
    /\ catalog \in Catalogs
    /\ \E a \in [Nodes -> Assignments] :
           /\ kvstore = FleetKV(a)
           /\ files = (PartitionFile :> FleetDoc(a))
           /\ conf = FleetConf(a)
    /\ sensor_refs = [p \in Nodes |-> RefsUnset]
    /\ outcome = [p \in Nodes |-> NotCalled]

SpecFleet == InitFleet /\ [][Next]_vars

----------------------------------------------------------------------------
(* One container on the key-value strategy, over every short directory value *)

ValueAlphabet == {"a", "b", ",", " ", "\t"}

\* The directory value 'a, b ,c'
ExampleValue == <<"a", ",", " ", "b", " ", ",", "c">>

DirectoryValues ==
    UNION {[1..n -> ValueAlphabet] : n \in 0..MaxValueLen} \cup {ExampleValue}

InitKV ==
    /\ catalog \in {<<>>, <<[ref |-> RefA, enabled |-> TRUE],
                            [ref |-> RefB, enabled |-> TRUE]>>}
    /\ kvstore \in {NoEntries}
                   \cup {(_get_partition_lookup_key(NodeName(1)) :> v) :
                             v \in DirectoryValues}
    /\ files = (PartitionFile :> NoEntries)
    /\ conf = [p \in {1} |->
                  [sensor_ref |-> <<>>,
                   sensor_node_name |-> NodeName(1),
                   partition_provider |-> ("name" :> KVSTORE_PARTITION_LOADER)]]
    /\ sensor_refs = [p \in {1} |-> RefsUnset]
    /\ outcome = [p \in {1} |-> NotCalled]

SpecKV == InitKV /\ [][Next]_vars

----------------------------------------------------------------------------
(* Properties *)

Procs == DOMAIN conf

Called(p) == outcome[p].status # "none"

Block(p) == conf[p].partition_provider

\* Process p runs a partition strategy spelled as one of names, with exactly
\* the extra fields that strategy's constructor takes
Runs(p, names, extras) ==
    /\ conf[p].sensor_ref = <<>>
    /\ "name" \in DOMAIN Block(p)
    /\ Block(p)["name"] \in names
    /\ DOMAIN Block(p) = {"name"} \cup extras

EnabledCatalog == SelectSeq(catalog, IsEnabled)

EnabledRefs == {catalog[i].ref : i \in {j \in 1..Len(catalog) : catalog[j].enabled}}

Count(seq, x) == Cardinality({i \in 1..Len(seq) : seq[i] = x})

\* C1: when the required references are a set, get_sensors() returns exactly
\* the enabled catalog entries whose reference is in the set, each as often as
\* the enabled catalog holds it, in catalog scan order; a required reference
\* that no enabled sensor has does not appear and raises nothing.
C1_FilteredInCatalogOrder ==
    \A p \in Procs :
        sensor_refs[p].tag = "Set" =>
            LET required == sensor_refs[p].refs
                InRequired(s) == s.ref \in required
                result == outcome[p].sensors
            IN  /\ outcome[p].status = "ok"
                /\ result = SelectSeq(EnabledCatalog, InRequired)
                /\ \A i \in 1..Len(result) :
                       /\ result[i].enabled
                       /\ result[i].ref \in required
                       /\ Count(result, result[i]) = Count(EnabledCatalog, result[i])
                /\ \A r \in required \ EnabledRefs :
                       \A i \in 1..Len(result) : result[i].ref # r

\* C1 witness: the file lists b, c, a; the catalog scans a before b and has no c
C1_Witness ==
    \E p \in Procs :
        /\ Runs(p, FileSpellings, {"partition_file"})
        /\ conf[p].sensor_node_name \in DOMAIN files[PartitionFile]
        /\ files[PartitionFile][conf[p].sensor_node_name] = <<RefB, RefC, RefA>>
        /\ catalog = <<[ref |-> RefA, enabled |-> TRUE], [ref |-> RefB, enabled |-> TRUE]>>
        /\ sensor_refs[p] = RefsSet({RefA, RefB, RefC})
        /\ outcome[p] = Returned(catalog)

\* C2: under the Default strategy get_sensors() returns the whole enabled
\* catalog in catalog order, whatever the catalog, the node name and the
\* partition directory hold.
C2_DefaultReturnsAllEnabled ==
    \A p \in Procs :
        (Called(p) /\ Runs(p, DefaultSpellings, {})) =>
            /\ outcome[p] = Returned(EnabledCatalog)
            /\ sensor_refs[p] = RefsNone

\* C2 witness: a directory entry for the node names one sensor, the Default
\* strategy still returns both enabled sensors
C2_Witness ==
    \E p \in Procs :
        /\ Runs(p, DefaultSpellings, {})
        /\ _get_partition_lookup_key(conf[p].sensor_node_name) \in DOMAIN kvstore
        /\ kvstore[_get_partition_lookup_key(conf[p].sensor_node_name)] = RefA
        /\ Len(catalog) = 2
        /\ outcome[p].status = "ok"
        /\ Len(outcome[p].sensors) = 2

\* C3: under the Key-Value strategy, a directory key that is absent or holds
\* the empty value makes get_sensors() return the empty list without error.
C3_KVAbsentOrEmptyReturnsNothing ==
    \A p \in Procs :
        (/\ Called(p)
         /\ Runs(p, KVStoreSpellings, {})
         /\ LET key == _get_partition_lookup_key(conf[p].sensor_node_name)
            IN  key \in DOMAIN kvstore => kvstore[key] = <<>>)
        => outcome[p] = Returned(<<>>)

\* C4: under the File strategy, a mapping without entry for the node makes
\* get_sensors() raise SensorPartitionMapMissingException; an entry that is an
\* empty sequence makes it return the empty list.
C4_FileMissingRaisesEmptyReturnsNothing ==
    \A p \in Procs :
        (Called(p) /\ Runs(p, FileSpellings, {"partition_file"})) =>
            LET partition_map == files[Block(p)["partition_file"]]
                node == conf[p].sensor_node_name
            IN  /\ node \notin DOMAIN partition_map =>
                       outcome[p] = Raised("SensorPartitionMapMissingException")
                /\ (node \in DOMAIN partition_map /\ partition_map[node] = <<>>) =>
                       outcome[p] = Returned(<<>>)

\* C4 witness: another node has an entry, this node has none, sensors are enabled
C4_Witness ==
    \E p \in Procs :
        /\ Runs(p, FileSpellings, {"partition_file"})
        /\ DOMAIN files[PartitionFile] # {}
        /\ conf[p].sensor_node_name \notin DOMAIN files[PartitionFile]
        /\ EnabledCatalog # <<>>
        /\ outcome[p].status = "error"

\* C5: with a direct sensor reference configured, get_sensors() returns the one
\* sensor registered under it, or raises SensorNotFoundException when there is
\* none, whatever the strategy name, node name and directory hold; no required
\* set is resolved.
C5_SingleSensorOverride ==
    \A p \in Procs :
        (Called(p) /\ conf[p].sensor_ref # <<>>) =>
            /\ sensor_refs[p] = RefsUnset
            /\ IF \E i \in 1..Len(catalog) : catalog[i].ref = conf[p].sensor_ref
               THEN /\ outcome[p].status = "ok"
                    /\ Len(outcome[p].sensors) = 1
                    /\ outcome[p].sensors[1].ref = conf[p].sensor_ref
                    /\ outcome[p].sensors[1] \in Range(catalog)
               ELSE outcome[p] = Raised("SensorNotFoundException")

\* C5 witness: an unknown strategy name beside a reference that resolves
C5_Witness ==
    \E p \in Procs :
        /\ conf[p].sensor_ref = RefA
        /\ Block(p)["name"] \in UnknownNames
        /\ outcome[p].status = "ok"
        /\ Len(outcome[p].sensors) = 1

\* Two names that differ at most in the case of their letters
SameIgnoringCase(a, b) ==
    /\ Len(a) = Len(b)
    /\ \A i \in 1..Len(a) :
           \/ a[i] = b[i]
           \/ \E j \in 1..Len(UpperChars) :
                  {a[i], b[i]} = {UpperChars[j], LowerChars[j]}

Registry == {DEFAULT_PARTITION_LOADER, KVSTORE_PARTITION_LOADER, FILE_PARTITION_LOADER}

\* C6: without a direct sensor reference, a strategy name that matches a
\* registry name up to case gives what the registry name itself gives, and a
\* name that matches none raises SensorPartitionerNotSupportedException and
\* returns no sensors.
C6_CaseInsensitiveSelection ==
    \A p \in Procs :
        (Called(p) /\ conf[p].sensor_ref = <<>> /\ "name" \in DOMAIN Block(p)) =>
            LET name == Block(p)["name"]
            IN  /\ \A canonical \in Registry :
                       SameIgnoringCase(name, canonical) =>
                           outcome[p] =
                               get_sensors_result(
                                   [conf[p] EXCEPT !.partition_provider["name"] =
                                                       canonical]).outcome
                /\ name \in DefaultSpellings /\ DOMAIN Block(p) = {"name"} =>
                       outcome[p] = Returned(EnabledCatalog)
                /\ (\A canonical \in Registry : ~SameIgnoringCase(name, canonical)) =>
                       outcome[p] = Raised("SensorPartitionerNotSupportedException")

\* C6 witness: the name DEFAULT selected the Default strategy
C6_Witness ==
    \E p \in Procs :
        /\ conf[p].sensor_ref = <<>>
        /\ Block(p) = ("name" :> <<"D", "E", "F", "A", "U", "L", "T">>)
        /\ EnabledCatalog # <<>>
        /\ outcome[p] = Returned(EnabledCatalog)

\* The comma-free stretches of v between commas and the ends: <<first, last>>
Segments(v) ==
    {s \in (1..(Len(v) + 1)) \X (0..Len(v)) :
        /\ s[1] <= s[2] + 1
        /\ s[1] = 1 \/ v[s[1] - 1] = ","
        /\ s[2] = Len(v) \/ v[s[2] + 1] = ","
        /\ \A k \in s[1]..s[2] : v[k] # ","}

\* The segment without the whitespace at its two ends
Trimmed(v, s) ==
    LET inner == {k \in s[1]..s[2] : v[k] \notin Whitespace}
    IN  IF inner = {} THEN <<>>
        ELSE SubSeq(v, CHOOSE a \in inner : \A k \in inner : a <= k,
                       CHOOSE b \in inner : \A k \in inner : b >= k)

TrimmedElements(v) == {Trimmed(v, s) : s \in Segments(v)}

\* Every element of the list holds a reference
ListOfReferences(v) == v # <<>> /\ <<>> \notin TrimmedElements(v)

\* C7: under the Key-Value strategy, a directory value that lists references
\* separated by commas, with any whitespace around each, resolves to exactly
\* the set of the references without that whitespace.
C7_KVValueTrimmedElements ==
    \A p \in Procs :
        LET key == _get_partition_lookup_key(conf[p].sensor_node_name)
        IN  (/\ Called(p)
             /\ Runs(p, KVStoreSpellings, {})
             /\ key \in DOMAIN kvstore
             /\ ListOfReferences(kvstore[key]))
            => /\ sensor_refs[p] = RefsSet(TrimmedElements(kvstore[key]))
               /\ \A r \in sensor_refs[p].refs :
                      r # <<>> /\ r[1] \notin Whitespace /\ r[Len(r)] \notin Whitespace

\* C7 witness: 'a, b ,c' resolved to {a, b, c}
C7_Witness ==
    \E p \in Procs :
        /\ kvstore = (_get_partition_lookup_key(conf[p].sensor_node_name) :> ExampleValue)
        /\ sensor_refs[p] = RefsSet({RefA, RefB, RefC})

\* C8: under the Key-Value strategy, a directory key that holds the empty
\* value makes get_required_sensor_refs return the empty set, which holds no
\* element, the empty string included.
C8_KVEmptyValueIsEmptySet ==
    \A p \in Procs :
        LET key == _get_partition_lookup_key(conf[p].sensor_node_name)
        IN  (/\ Called(p)
             /\ Runs(p, KVStoreSpellings, {})
             /\ key \in DOMAIN kvstore
             /\ kvstore[key] = <<>>)
            => /\ sensor_refs[p] = RefsSet({})
               /\ <<>> \notin sensor_refs[p].refs

\* What the directory assigns to the node of process p
HasAssignment(p) ==
    IF Block(p)["name"] = KVSTORE_PARTITION_LOADER
    THEN _get_partition_lookup_key(conf[p].sensor_node_name) \in DOMAIN kvstore
    ELSE conf[p].sensor_node_name \in DOMAIN files[PartitionFile]

Assigned(p) ==
    IF Block(p)["name"] = KVSTORE_PARTITION_LOADER
    THEN TrimmedElements(kvstore[_get_partition_lookup_key(conf[p].sensor_node_name)])
    ELSE Range(files[PartitionFile][conf[p].sensor_node_name])

\* Every node has an assignment, no enabled reference is assigned twice and
\* every enabled reference is assigned
ConsistentDirectory ==
    /\ \A p \in Procs : HasAssignment(p)
    /\ \A p, q \in Procs : p # q => Assigned(p) \cap Assigned(q) \cap EnabledRefs = {}
    /\ \A r \in EnabledRefs : \E p \in Procs : r \in Assigned(p)

Holders(s) == {p \in Procs : Called(p) /\ s \in Range(outcome[p].sensors)}

\* C9: when the directory assigns the nodes of a fleet sets that do not
\* overlap and together hold every enabled reference, then, in whatever order
\* the nodes call get_sensors(), no enabled sensor is in two results, and once
\* all have called, each is in exactly one, as often as the catalog holds it.
C9_FleetCoverage ==
    ConsistentDirectory =>
        \A i \in 1..Len(EnabledCatalog) :
            LET s == EnabledCatalog[i]
            IN  /\ Cardinality(Holders(s)) <= 1
                /\ (\A p \in Procs : Called(p)) => Cardinality(Holders(s)) = 1
                /\ \A p \in Holders(s) :
                       /\ outcome[p].status = "ok"
                       /\ Count(outcome[p].sensors, s) = Count(EnabledCatalog, s)

\* C9 witness: two enabled sensors, each node returned one of them
C9_Witness ==
    /\ ConsistentDirectory
    /\ Len(EnabledCatalog) = 2
    /\ \A p \in Procs : Called(p)
    /\ \E p, q \in Procs :
           /\ p # q
           /\ Block(p)["name"] # Block(q)["name"]
           /\ Len(outcome[p].sensors) = 1
           /\ Len(outcome[q].sensors) = 1
           /\ outcome[p].sensors # outcome[q].sensors

\* C10: a get_sensors() call leaves the catalog, the key-value store, the
\* partition file and the configuration as they were, the partition_provider
\* block keeps its name, and a later call returns or raises what the earlier
\* one did.
C10_CallsChangeNothing ==
    [][/\ catalog' = catalog
       /\ kvstore' = kvstore
       /\ files' = files
       /\ conf' = conf
       /\ \A p \in Procs : "name" \in DOMAIN conf'[p].partition_provider
       /\ \A p \in Procs : Called(p) => outcome'[p] = outcome[p]]_vars

\* C10 witness: a call with a name and an extra field in the block has returned
C10_Witness ==
    \E p \in Procs :
        /\ Runs(p, FileSpellings, {"partition_file"})
        /\ outcome[p].status = "ok"
        /\ outcome[p].sensors # <<>>

====
